---- MODULE Spec2Model ----
(***************************************************************************)
(* Model of the proxy validation pipeline of cf_proxy_checker.py: the      *)
(* extraction of the candidates and the iptest run (steps 1 and 2), the    *)
(* candidate list (step 3), the probe check_proxy (step 4), the thread     *)
(* pool fan-out/fan-in (step 5), and the ranking and result files          *)
(* (steps 6 and 7).                                                        *)
(*                                                                         *)
(* Texts that the program converts (hosts, ports, response times) are      *)
(* sequences of one-character strings, so that str(), int() and split()    *)
(* are computed and can fail as they do in Python.  No host or port of a   *)
(* candidate contains '#' or ':', so "ip:port#<rt>ms" is kept as the       *)
(* record [ip, port, rt] of its three sections.                            *)
(*                                                                         *)
(* Spec is the run from step 3 on with the probes interleaved, SpecRank    *)
(* the ranking from every state in which the pool can end, SpecPool the    *)
(* pool at its ceiling of ten threads, SpecIngest steps 1 to 3, SpecProbe  *)
(* check_proxy called on any line with any reply, SpecFair the run under   *)
(* fair scheduling, and SpecFresh the whole script started among the       *)
(* files of an earlier run (step 0 included).                              *)
(***************************************************************************)
EXTENDS Integers, Sequences, FiniteSets, TLC

(***************************************************************************)
(* Bounds of the model.                                                    *)
(***************************************************************************)
\* longest input file and candidate source file (lines) explored
MaxProxies == 2
\* most failing appends to the diagnostic log in one run
MaxLogFaults == 1
\* most calls of check_proxy explored under SpecProbe
MaxCalls == 1

(***************************************************************************)
(* Python text conversions.                                                *)
(***************************************************************************)
Digits == <<"0", "1", "2", "3", "4", "5", "6", "7", "8", "9">>

IsDigit(c) == \E d \in 1..10 : Digits[d] = c

DigitVal(c) == (CHOOSE d \in 1..10 : Digits[d] = c) - 1

RECURSIVE NatStr(_)
NatStr(n) == IF n < 10 THEN <<Digits[n + 1]>>
             ELSE Append(NatStr(n \div 10), Digits[(n % 10) + 1])

\* str(n) of a Python int
IntStr(n) == IF n < 0 THEN <<"-">> \o NatStr(0 - n) ELSE NatStr(n)

RECURSIVE DigitsVal(_)
DigitsVal(t) == IF t = <<>> THEN 0
                ELSE 10 * DigitsVal(SubSeq(t, 1, Len(t) - 1)) + DigitVal(t[Len(t)])

AllDigits(t) == t # <<>> /\ \A k \in 1..Len(t) : IsDigit(t[k])

\* int(t) of a text: [ok |-> TRUE, v |-> n], or [ok |-> FALSE] for ValueError
PyInt(t) ==
    IF AllDigits(t) THEN [ok |-> TRUE, v |-> DigitsVal(t)]
    ELSE IF t # <<>> /\ t[1] = "-" /\ AllDigits(Tail(t))
         THEN [ok |-> TRUE, v |-> 0 - DigitsVal(Tail(t))]
         ELSE [ok |-> FALSE]

(***************************************************************************)
(* JSON values of a reply.  A float carries its value in halves (h = 201   *)
(* is 100.5), so that numbers compare exactly.                             *)
(***************************************************************************)
JInt(n) == [t |-> "int", v |-> n]
JFloat(h) == [t |-> "float", h |-> h]
JNull == [t |-> "null"]
JBool(b) == [t |-> "bool", b |-> b]
JText(s) == [t |-> "str", s |-> s]

IsNumber(x) == x.t \in {"int", "float"}

\* the value of a number in halves
Halves(x) == IF x.t = "int" THEN 2 * x.v ELSE x.h

\* str(x)
PyStr(x) ==
    CASE x.t = "int" -> IntStr(x.v)
      [] x.t = "float" -> (IF x.h < 0 THEN <<"-">> ELSE <<>>)
                          \o NatStr((IF x.h < 0 THEN 0 - x.h ELSE x.h) \div 2)
                          \o <<".", IF x.h % 2 = 0 THEN "0" ELSE "5">>
      [] x.t = "null" -> <<"N", "o", "n", "e">>
      [] x.t = "bool" -> IF x.b THEN <<"T", "r", "u", "e">>
                         ELSE <<"F", "a", "l", "s", "e">>
      [] x.t = "str" -> x.s

\* truth value of x in "if x"
Truthy(x) ==
    CASE x.t = "int" -> x.v # 0
      [] x.t = "float" -> x.h # 0
      [] x.t = "null" -> FALSE
      [] x.t = "bool" -> x.b
      [] x.t = "str" -> x.s # <<>>

\* x != -1
NotMinusOne(x) == ~(IsNumber(x) /\ Halves(x) = 0 - 2)

(***************************************************************************)
(* Candidates and replies of the check endpoint.                           *)
(***************************************************************************)
P80 == <<"8", "0">>
P443 == <<"4", "4", "3">>

\* a line of the candidate source file, split() into its tokens
CandA == <<(<<"a">>), P443>>
CandB == <<(<<"b">>), P80>>
Candidates == {CandA, CandB}

\* a line that does not split into exactly two tokens: "a b 443", written
\* for a row whose ip field is "a b"
BadLine == <<(<<"a">>), (<<"b">>), P443>>

Min(a, b) == IF a < b THEN a ELSE b

\* line 439: the most pool threads
fixedMaxWorkers == 10

Obj(f) == [t |-> "obj", f |-> f]
JList == [t |-> "list"]

\* data.get(name, default) of a parsed object
Get(data, name, default) == IF name \in DOMAIN data.f THEN data.f[name] ELSE default

\* what subprocess.run(['curl', '-s', url], timeout=10) can do
TimedOut == [timeout |-> TRUE, rc |-> 1, out |-> [k |-> "empty"]]
Exited(rc, out) == [timeout |-> FALSE, rc |-> rc, out |-> out]
NoBody == [k |-> "empty"]
NotJson == [k |-> "text"]
Json(val) == [k |-> "json", val |-> val]

Succeeded(rt) == Obj([success |-> JBool(TRUE), responseTime |-> rt])

\* replies explored while the probes run concurrently (Spec): a timeout, a
\* failed request, a body that is not JSON, a JSON body that is not an
\* object, and a success
ProbeReplies ==
    { TimedOut,
      Exited(7, NoBody),
      Exited(0, NotJson),
      Exited(0, Json(JList)),
      Exited(0, Json(Succeeded(JInt(100)))) }

\* replies explored for one call of check_proxy (SpecProbe): those of the
\* run, a success body with a failing return code, a body that reports no
\* success, one that reports the response time -1, and one that names
\* another host and port
CheckReplies ==
    ProbeReplies \cup
    { Exited(7, Json(Succeeded(JInt(100)))),
      Exited(0, Json(Obj([success |-> JBool(FALSE), responseTime |-> JInt(100)]))),
      Exited(0, Json(Succeeded(JInt(0 - 1)))),
      Exited(0, Json(Obj([success |-> JBool(TRUE), responseTime |-> JInt(200),
                          proxyIP |-> JText(<<"c">>), portRemote |-> JInt(443)]))) }

\* replies explored by the ranking (SpecRank): one failure and the shapes
\* of success records
RankReplies ==
    { TimedOut,
      Exited(0, Json(Succeeded(JInt(100)))),
      Exited(0, Json(Succeeded(JInt(200)))),
      Exited(0, Json(Succeeded(JInt(400)))),
      Exited(0, Json(Succeeded(JFloat(201)))),
      Exited(0, Json(Succeeded(JNull))),
      Exited(0, Json(Succeeded(JInt(0 - 5)))),
      Exited(0, Json(Obj([success |-> JBool(TRUE), responseTime |-> JInt(100),
                          portRemote |-> JText(<<"x">>)]))),
      Exited(0, Json(Obj([success |-> JBool(TRUE), responseTime |-> JInt(200),
                          proxyIP |-> JText(<<"c">>), portRemote |-> JInt(443)]))) }

(***************************************************************************)
(* check_proxy, in the pieces between which other threads can run.         *)
(***************************************************************************)
NoLoc == [k |-> "none"]

\* variant: what the reply names is not looked at
Reported_Ignored(data, key, default) == default

\* lines 396-398: data.get(key, default) as it stands in the f-string of
\* the header
Reported(data, key, default) ==
    IF key \in DOMAIN data.f THEN PyStr(data.f[key]) ELSE default

\* lines 368-406: the split, the request and the first parse; the result is
\* the locals header, stdout, stderr, returncode
Request(ip_port, reply) ==
    IF Len(ip_port) # 2 THEN [k |-> "malformed", ip_port |-> ip_port]
    ELSE
    LET ip == ip_port[1]
        port == ip_port[2]
        init == [k |-> "probed", header |-> [ip |-> ip, port |-> port],
                 stdout |-> NoBody, stderr |-> "", returncode |-> 1]
        got == [init EXCEPT !.returncode = reply.rc, !.stdout = reply.out]
    IN  IF reply.timeout THEN [init EXCEPT !.stderr = "request timed out"]
        ELSE CASE reply.out.k = "empty" -> got
               [] reply.out.k = "text" -> [got EXCEPT !.stderr = "JSON parse failed"]
               [] reply.out.k = "json" ->
                    IF reply.out.val.t # "obj"
                    THEN [got EXCEPT !.stderr = "exception"]
                    ELSE LET data == reply.out.val
                             header_ip == Reported(data, "proxyIP", ip)
                             header_port == Reported(data, "portRemote", port)
                         IN [got EXCEPT !.header = [ip |-> header_ip, port |-> header_port]]

\* lines 374 and 412: the first line of a probe's block
HeaderLine(loc) ==
    IF loc.k = "malformed"
    THEN [kind |-> "header", k |-> "malformed", ip_port |-> loc.ip_port]
    ELSE [kind |-> "header", k |-> "probed", header |-> loc.header]

\* lines 375 and 413-416: the rest of the block
ResultLines(loc) ==
    IF loc.k = "malformed"
    THEN [kind |-> "result", k |-> "malformed"]
    ELSE [kind |-> "result", k |-> "probed", stdout |-> loc.stdout,
          stderr |-> loc.stderr, returncode |-> loc.returncode]

None == [t |-> "None"]
Raised == [t |-> "raise"]

\* f"{header}#{response_time}ms"
Entry(header, response_time) ==
    [ip |-> header.ip, port |-> header.port, rt |-> PyStr(response_time)]

\* variant: the return code is not looked at
Usable_AnyCode(loc) == loc.stdout.k # "empty"

\* line 421: if returncode == 0 and stdout
Usable(loc) == loc.returncode = 0 /\ loc.stdout.k # "empty"

\* lines 378 and 420-435: the value check_proxy returns, or Raised when an
\* exception leaves it
Classify(loc) ==
    IF loc.k = "malformed" THEN None
    ELSE IF Usable(loc)
    THEN IF loc.stdout.k = "text" THEN None
         ELSE IF loc.stdout.val.t # "obj" THEN Raised
         ELSE LET data == loc.stdout.val
                  success == Get(data, "success", JBool(FALSE))
                  response_time == Get(data, "responseTime", JInt(0 - 1))
              IN IF Truthy(success) /\ NotMinusOne(response_time)
                 THEN [t |-> "tuple", rt |-> response_time,
                       entry |-> Entry(loc.header, response_time)]
                 ELSE None
    ELSE None

(***************************************************************************)
(* Python's stable sort, on elements paired with their keys.  A key is a   *)
(* tuple of one or two integers; response times are compared in halves.    *)
(***************************************************************************)
KeyLess(a, b) == \/ a[1] < b[1]
                 \/ a[1] = b[1] /\ Len(a) > 1 /\ a[2] < b[2]

RECURSIVE InsertKeyed(_, _)
InsertKeyed(s, x) ==
    IF s = <<>> THEN <<x>>
    ELSE IF KeyLess(x.key, Head(s).key) THEN <<x>> \o s
    ELSE <<Head(s)>> \o InsertKeyed(Tail(s), x)

RECURSIVE SortKeyed(_)
SortKeyed(s) ==
    IF s = <<>> THEN <<>>
    ELSE InsertKeyed(SortKeyed(SubSeq(s, 1, Len(s) - 1)), s[Len(s)])

Items(s) == [k \in 1..Len(s) |-> s[k].item]

\* a response time as a sort key; a value that is not a number is never
\* compared (SortRaises)
RtKey(x) == IF IsNumber(x) THEN Halves(x) ELSE 0

(***************************************************************************)
(* Ranking: line 457 and steps 6 and 7.                                    *)
(***************************************************************************)
\* line 457 raises TypeError: every element of a list of two or more takes
\* part in a comparison, and None compares with nothing
SortRaises(s) == Len(s) >= 2 /\ \E k \in 1..Len(s) : ~IsNumber(s[k].rt)

\* line 457: successful_proxies.sort(key=lambda x: x[0])
SortByResponseTime(s) ==
    Items(SortKeyed([k \in 1..Len(s) |-> [key |-> <<RtKey(s[k].rt)>>, item |-> s[k]]]))

\* lines 462-471: the key (int(port), response_time) of an entry, or the
\* sentinel when the port does not parse
get_port_and_time(response_time, line) ==
    LET port == PyInt(line.port)
    IN IF port.ok THEN <<port.v, RtKey(response_time)>>
       ELSE <<65536, 2 * 99999>>

\* variant: the order of line 457 is kept
successful_proxies_sorted_Unsorted(s) == s

\* line 474
successful_proxies_sorted(s) ==
    Items(SortKeyed([k \in 1..Len(s) |->
        [key |-> get_port_and_time(s[k].rt, s[k].entry), item |-> s[k]]]))

\* variant: one line is written for each (port, response time) key
SuccessLines_OnePerKey(sorted) ==
    LET key(k) == get_port_and_time(sorted[k].rt, sorted[k].entry)
        K == {k \in 1..Len(sorted) : \A j \in 1..(k - 1) : key(j) # key(k)}
    IN [n \in 1..Cardinality(K) |->
          sorted[CHOOSE k \in K : Cardinality({j \in K : j < k}) = n - 1].entry]

\* lines 476-478
SuccessLines(sorted) == [k \in 1..Len(sorted) |-> sorted[k].entry]

\* variant: the threshold is not compared
Preferred_AnyTime(line, threshold) == PyInt(line.rt).ok

\* lines 499-507 for one line of the success file: whether it is kept
Preferred(line, threshold) ==
    LET response_time == PyInt(line.rt)
    IN response_time.ok /\ response_time.v < threshold

\* lines 493-510: preferred_proxies before it is sorted
ReadPreferred(lines, threshold) ==
    LET kept == SelectSeq(lines, LAMBDA line : Preferred(line, threshold))
    IN [k \in 1..Len(kept) |->
          [rt |-> PyInt(kept[k].rt).v, line |-> kept[k], port |-> kept[k].port]]

\* line 513 raises ValueError: the key int(x[2]) is computed for every element
PreferredSortRaises(p) == \E k \in 1..Len(p) : ~PyInt(p[k].port).ok

\* variant: the key without the port
SortPreferred_ByTime(p) ==
    Items(SortKeyed([k \in 1..Len(p) |-> [key |-> <<2 * p[k].rt>>, item |-> p[k]]]))

\* line 513: preferred_proxies.sort(key=lambda x: (int(x[2]), x[0]))
SortPreferred(p) ==
    Items(SortKeyed([k \in 1..Len(p) |->
        [key |-> <<PyInt(p[k].port).v, 2 * p[k].rt>>, item |-> p[k]]]))

\* line 518: the ports of PREFERRED_PROXY_PORT, a sequence of the texts
\* between its commas
preferred_ports(config) == {config[k] : k \in {j \in 1..Len(config) : config[j] # <<>>}}

\* lines 520-522
FilterPorts(p, config) == SelectSeq(p, LAMBDA x : x.port \in preferred_ports(config))

\* line 525
preferred_port_proxies_sorted(pp) ==
    Items(SortKeyed([k \in 1..Len(pp) |->
        [key |-> get_port_and_time(JInt(pp[k].rt), pp[k].line), item |-> pp[k]]]))

PreferredLines(p) == [k \in 1..Len(p) |-> p[k].line]

(***************************************************************************)
(* Steps 1 and 2: from the input file to the two candidate files.  A text  *)
(* is a sequence of characters, a line of a candidate file the list of the *)
(* tokens line.split() finds in it.                                        *)
(***************************************************************************)
TokA == <<"a">>
TokB == <<"b">>
Colon == ":"

\* str.split(':') of a text without blanks
RECURSIVE SplitColon(_)
SplitColon(t) ==
    IF \A k \in 1..Len(t) : t[k] # Colon THEN <<t>>
    ELSE LET k == CHOOSE k \in 1..Len(t) :
                      t[k] = Colon /\ \A j \in 1..(k - 1) : t[j] # Colon
         IN <<SubSeq(t, 1, k - 1)>> \o SplitColon(SubSeq(t, k + 1, Len(t)))

\* the input file: absent, a .csv file of which the ip and port columns are
\* found or not, or a .txt file.  A csv row holds the tokens of its stripped
\* ip and port fields, a txt line its tokens.
NoInput == [ext |-> "none"]
CsvInput(cols, rows) == [ext |-> "csv", cols |-> cols, rows |-> rows]
TxtInput(lines) == [ext |-> "txt", lines |-> lines]

CsvRows ==
    { [ip |-> <<TokA>>, port |-> <<P443>>],
      [ip |-> <<TokB>>, port |-> <<P80>>],
      [ip |-> <<TokA, TokB>>, port |-> <<P443>>],
      [ip |-> <<TokA>>, port |-> <<>>] }

TxtLines ==
    { <<TokA, P443>>,
      <<TokB \o <<Colon>> \o P80>>,
      <<TokA, TokB, P443>>,
      <<TokA>> }

\* lines 191-200: the lines written for the rows of a csv input
RECURSIVE CsvLines(_)
CsvLines(rows) ==
    IF rows = <<>> THEN <<>>
    ELSE (IF Head(rows).ip # <<>> /\ Head(rows).port # <<>>
          THEN <<Head(rows).ip \o Head(rows).port>>
          ELSE <<>>) \o CsvLines(Tail(rows))

\* lines 217-232: ip and port of a line of a txt input, or none
TxtFields(line) ==
    IF Len(line) >= 2 THEN [ok |-> TRUE, ip |-> line[1], port |-> line[2]]
    ELSE LET parts == SplitColon(line[1])
         IN IF Len(parts) >= 2
            THEN [ok |-> TRUE, ip |-> parts[1], port |-> parts[2]]
            ELSE [ok |-> FALSE]

\* lines 211-237: the lines written for the lines of a txt input
RECURSIVE TxtToLines(_)
TxtToLines(lines) ==
    IF lines = <<>> THEN <<>>
    ELSE LET f == TxtFields(Head(lines))
         IN (IF f.ok /\ f.ip # <<>> /\ f.port # <<>> THEN <<(<<f.ip, f.port>>)>> ELSE <<>>)
            \o TxtToLines(Tail(lines))

\* the result file of iptest: absent, or a csv file whose header has the
\* nine columns or not, with rows of ip, port and country
NoCsv == [exists |-> FALSE, header |-> FALSE, rows |-> <<>>]
Csv(header, rows) == [exists |-> TRUE, header |-> header, rows |-> rows]

Countries == {"US", "JP"}

\* the rows iptest reports for the lines of PROXY_FILE: a line is left out
\* or reported with a country; a line of another shape is left out
RECURSIVE IptestRows(_, _)
IptestRows(lines, label) ==
    IF lines = <<>> THEN <<>>
    ELSE LET n == Len(lines)
             line == lines[n]
         IN IptestRows(SubSeq(lines, 1, n - 1), label)
            \o (IF Len(line) = 2 /\ label[n] \in Countries
                THEN <<[ip |-> line[1], port |-> line[2], country |-> label[n]]>>
                ELSE <<>>)

\* variant: every country is taken
Wanted_Any(country, r) == TRUE

\* line 309: not PREFERRED_COUNTRY or country == PREFERRED_COUNTRY
Wanted(country, r) == country = "" \/ r.country = country

\* lines 301-314: the lines written for the rows of the csv file of iptest,
\* seen being the set seen_proxies
RECURSIVE ExtractIptest(_, _, _)
ExtractIptest(rows, country, seen) ==
    IF rows = <<>> THEN <<>>
    ELSE LET r == Head(rows)
             proxy_key == r.ip \o <<Colon>> \o r.port
         IN IF r.ip # <<>> /\ r.port # <<>>
               /\ Wanted(country, r)
               /\ proxy_key \notin seen
            THEN <<(<<r.ip, r.port>>)>>
                 \o ExtractIptest(Tail(rows), country, seen \cup {proxy_key})
            ELSE ExtractIptest(Tail(rows), country, seen)

(***************************************************************************)
(* State.                                                                  *)
(***************************************************************************)
VARIABLES
    PREFERRED_COUNTRY,
    input_file,                  \* the file named input_filename
    proxy_file,                  \* PROXY_FILE: [exists, lines]
    iptest_csv_file,             \* IPTEST_CSV_FILE: [exists, header, rows]
    iptest_txt_file,             \* IPTEST_TXT_FILE: [exists, lines]
    source,                      \* lines of proxy_source_file, as token lists
    PREFERRED_PROXY_PORT,        \* the texts between the commas of the input
    PREFERRED_MAX_RESPONSE_TIME,
    main,                        \* where the main thread is
    proxies,
    max_workers,
    fut,                         \* the submitted futures, in submission order
    file_lock,                   \* 0 when free, else the probe that holds it
    log,                         \* lines of FULL_RESPONSES_FILE
    log_faults,                  \* appends to the log that failed so far
    yielded,                     \* futures as_completed has handed out
    pbar,
    successful_proxies,
    success_file,                \* SUCCESS_PROXY_FILE: [exists, lines]
    preferred_file,              \* PREFERRED_PROXY_FILE: [exists, lines]
    preferred_proxies,
    preferred_port_proxies,
    reported,                    \* the counts of the last lines of the summary
    exit_code                    \* -1 while the run lasts

vars == <<PREFERRED_COUNTRY, input_file, proxy_file, iptest_csv_file, iptest_txt_file,
          source, PREFERRED_PROXY_PORT, PREFERRED_MAX_RESPONSE_TIME, main, proxies,
          max_workers, fut, file_lock, log, log_faults, yielded, pbar,
          successful_proxies, success_file, preferred_file, preferred_proxies,
          preferred_port_proxies, reported, exit_code>>

ingest == <<PREFERRED_COUNTRY, input_file, proxy_file, iptest_csv_file, iptest_txt_file>>
config == <<ingest, source, PREFERRED_PROXY_PORT, PREFERRED_MAX_RESPONSE_TIME>>
pool == <<max_workers, fut, file_lock, log_faults, yielded, pbar>>
ranking == <<success_file, preferred_file, preferred_proxies, preferred_port_proxies,
             reported>>

\* nothing is printed yet
NoReport == [successful |-> 0 - 1, preferred |-> 0 - 1]

SeqsUpTo(S, n) == UNION {[1..k -> S] : k \in 0..n}

NoFile == [exists |-> FALSE, lines |-> <<>>]
File(lines) == [exists |-> TRUE, lines |-> lines]

PortInputs == {<<>>, <<P443>>, <<P80, P443>>}

\* nothing is read, started or written yet
Start ==
    /\ proxies = <<>>
    /\ max_workers = 0
    /\ fut = <<>>
    /\ file_lock = 0
    /\ log = <<>>
    /\ log_faults = 0
    /\ yielded = {}
    /\ pbar = 0
    /\ successful_proxies = <<>>
    /\ success_file = NoFile
    /\ preferred_file = NoFile
    /\ preferred_proxies = <<>>
    /\ preferred_port_proxies = <<>>
    /\ reported = NoReport
    /\ exit_code = 0 - 1

\* a state of the files in which steps 1 and 2 end with src as the contents
\* of the file line 338 selects: an empty list is what is extracted from an
\* iptest result without rows, any other list is what step 1 writes for a
\* csv input when ./iptest is not found
Ingested(src) ==
    /\ PREFERRED_COUNTRY = ""
    /\ IF src = <<>>
       THEN /\ input_file = CsvInput(TRUE, <<[ip |-> <<TokA>>, port |-> <<P443>>]>>)
            /\ proxy_file = File(<<CandA>>)
            /\ iptest_csv_file = Csv(TRUE, <<>>)
            /\ iptest_txt_file = File(<<>>)
       ELSE /\ input_file = CsvInput(TRUE, [k \in 1..Len(src) |->
                  [ip |-> SubSeq(src[k], 1, Len(src[k]) - 1),
                   port |-> <<src[k][Len(src[k])]>>]])
            /\ proxy_file = File(src)
            /\ iptest_csv_file = NoCsv
            /\ iptest_txt_file = NoFile

\* the state at line 340
Init ==
    /\ source \in SeqsUpTo(Candidates \cup {BadLine}, MaxProxies)
    /\ Ingested(source)
    /\ PREFERRED_PROXY_PORT = <<P443>>
    /\ PREFERRED_MAX_RESPONSE_TIME = 350
    /\ main = "load"
    /\ Start

(***************************************************************************)
(* Main thread: step 0.                                                    *)
(***************************************************************************)
OldFiles == {"proxy", "success", "log", "iptest_csv", "iptest_txt", "preferred"}

\* lines 123-143: every old file is removed, unless os.remove raises for it:
\* the handler of line 140 prints and the loop goes on
Cleanup ==
    /\ main = "cleanup"
    /\ \E kept \in SUBSET OldFiles :
          /\ proxy_file' = IF "proxy" \in kept THEN proxy_file ELSE NoFile
          /\ success_file' = IF "success" \in kept THEN success_file ELSE NoFile
          /\ log' = IF "log" \in kept THEN log ELSE <<>>
          /\ iptest_csv_file' = IF "iptest_csv" \in kept THEN iptest_csv_file ELSE NoCsv
          /\ iptest_txt_file' = IF "iptest_txt" \in kept THEN iptest_txt_file ELSE NoFile
          /\ preferred_file' = IF "preferred" \in kept THEN preferred_file ELSE NoFile
    /\ main' = "step1"
    /\ UNCHANGED <<PREFERRED_COUNTRY, input_file, source, PREFERRED_PROXY_PORT,
                   PREFERRED_MAX_RESPONSE_TIME, proxies, pool, successful_proxies,
                   preferred_proxies, preferred_port_proxies, reported, exit_code>>

(***************************************************************************)
(* Main thread: steps 1 and 2.                                             *)
(***************************************************************************)
\* lines 146-256; the file is written before it is found to be empty
Step1 ==
    /\ main = "step1"
    /\ IF proxy_file.exists
       THEN main' = "step2" /\ UNCHANGED <<proxy_file, exit_code>>
       ELSE IF input_file.ext = "none" \/ (input_file.ext = "csv" /\ ~input_file.cols)
       THEN main' = "exit" /\ exit_code' = 1 /\ UNCHANGED proxy_file
       ELSE LET lines == IF input_file.ext = "csv" THEN CsvLines(input_file.rows)
                         ELSE TxtToLines(input_file.lines)
            IN /\ proxy_file' = File(lines)
               /\ main' = IF lines = <<>> THEN "exit" ELSE "step2"
               /\ exit_code' = IF lines = <<>> THEN 1 ELSE exit_code
    /\ UNCHANGED <<PREFERRED_COUNTRY, input_file, iptest_csv_file, iptest_txt_file,
                   source, PREFERRED_PROXY_PORT, PREFERRED_MAX_RESPONSE_TIME, proxies,
                   pool, log, successful_proxies, ranking>>

\* what ./iptest does: it cannot be started, or it ends with a return code
\* and with or without a result file
IptestRuns ==
    {[started |-> FALSE, rc |-> 1, csv |-> NoCsv],
     [started |-> TRUE, rc |-> 1, csv |-> NoCsv],
     [started |-> TRUE, rc |-> 0, csv |-> NoCsv],
     [started |-> TRUE, rc |-> 0, csv |-> Csv(FALSE, <<>>)]}
    \cup {[started |-> TRUE, rc |-> 0, csv |-> Csv(TRUE, IptestRows(proxy_file.lines, label))] :
             label \in [1..Len(proxy_file.lines) -> Countries \cup {"none"}]}

\* lines 258-334
Step2 ==
    /\ main = "step2"
    /\ \E run \in IptestRuns :
          /\ iptest_csv_file' = IF run.csv.exists THEN run.csv ELSE iptest_csv_file
          /\ IF run.started /\ run.rc = 0 /\ iptest_csv_file'.exists
                /\ iptest_csv_file'.header
             THEN iptest_txt_file' =
                    File(ExtractIptest(iptest_csv_file'.rows, PREFERRED_COUNTRY, {}))
             ELSE UNCHANGED iptest_txt_file
    /\ main' = "select"
    /\ UNCHANGED <<PREFERRED_COUNTRY, input_file, proxy_file, source,
                   PREFERRED_PROXY_PORT, PREFERRED_MAX_RESPONSE_TIME, proxies, pool, log,
                   successful_proxies, ranking, exit_code>>

\* lines 337-338
SelectSource ==
    /\ main = "select"
    /\ source' = IF iptest_txt_file.exists THEN iptest_txt_file.lines ELSE proxy_file.lines
    /\ main' = "load"
    /\ UNCHANGED <<ingest, PREFERRED_PROXY_PORT, PREFERRED_MAX_RESPONSE_TIME, proxies,
                   pool, log, successful_proxies, ranking, exit_code>>

(***************************************************************************)
(* Main thread, up to the pool.                                            *)
(***************************************************************************)
\* variant: the list is not checked
AfterLoad_Unchecked(p) == "clear"

\* lines 344-347: exit(1) when no proxy was read
AfterLoad(p) == IF p = <<>> THEN "exit" ELSE "clear"

\* lines 340-353
LoadProxies ==
    /\ main = "load"
    /\ proxies' = SelectSeq(source, LAMBDA line : Len(line) = 2)
    /\ main' = AfterLoad(proxies')
    /\ exit_code' = IF main' = "exit" THEN 1 ELSE exit_code
    /\ UNCHANGED <<config, pool, log, successful_proxies, ranking>>

\* lines 356-361
ClearLog ==
    /\ main = "clear"
    /\ log' = <<>>
    /\ main' = "pool"
    /\ UNCHANGED <<config, proxies, pool, successful_proxies, ranking, exit_code>>

\* lines 357 and 359-361: open() raises
ClearLogFails ==
    /\ main = "clear"
    /\ main' = "exit"
    /\ exit_code' = 1
    /\ UNCHANGED <<config, proxies, pool, log, successful_proxies, ranking>>

\* lines 439-441
StartPool ==
    /\ main = "pool"
    /\ max_workers' = Min(fixedMaxWorkers, Len(proxies))
    /\ successful_proxies' = <<>>
    /\ main' = "submit"
    /\ UNCHANGED <<config, proxies, fut, file_lock, log, log_faults, yielded, pbar,
                   ranking, exit_code>>

\* line 442: executor.submit(check_proxy, proxy) for the next proxy
Submit ==
    /\ main = "submit"
    /\ Len(fut) < Len(proxies)
    /\ fut' = Append(fut, [pc |-> "queued", arg |-> proxies[Len(fut) + 1], curls |-> 0,
                           loc |-> NoLoc, res |-> None])
    /\ main' = IF Len(fut') = Len(proxies) THEN "collect" ELSE "submit"
    /\ UNCHANGED <<config, proxies, max_workers, file_lock, log, log_faults, yielded,
                   pbar, successful_proxies, ranking, exit_code>>

(***************************************************************************)
(* Worker threads running check_proxy.                                     *)
(***************************************************************************)
Active == {i \in 1..Len(fut) : fut[i].pc \in {"curl", "wait", "write", "return"}}

\* line 441: the pool has at most max_workers threads, each running one
\* work item at a time; a thread is free to take one
\* variant: a thread too many
ThreadFree_Extra == Cardinality(Active) <= max_workers

ThreadFree == Cardinality(Active) < max_workers

\* a pool thread takes the oldest queued work item
WorkerStart(i) ==
    /\ fut[i].pc = "queued"
    /\ \A j \in 1..(i - 1) : fut[j].pc # "queued"
    /\ ThreadFree
    /\ fut' = [fut EXCEPT ![i].pc = "curl"]
    /\ UNCHANGED <<config, main, proxies, max_workers, file_lock, log, log_faults,
                   yielded, pbar, successful_proxies, ranking, exit_code>>

\* lines 368-369: ip_port does not split into two tokens, and the handler
\* of line 369 is entered without a request
SplitFails(i) ==
    /\ fut[i].pc = "curl"
    /\ Len(fut[i].arg) # 2
    /\ fut' = [fut EXCEPT ![i].pc = "wait", ![i].loc = Request(fut[i].arg, TimedOut)]
    /\ UNCHANGED <<config, main, proxies, max_workers, file_lock, log, log_faults,
                   yielded, pbar, successful_proxies, ranking, exit_code>>

\* lines 368-406, up to the lock: the one call of subprocess.run and what
\* becomes of its reply, one of replies
Curl(i, replies) ==
    /\ fut[i].pc = "curl"
    /\ Len(fut[i].arg) = 2
    /\ \E reply \in replies :
          fut' = [fut EXCEPT ![i].pc = "wait", ![i].curls = @ + 1,
                             ![i].loc = Request(fut[i].arg, reply)]
    /\ UNCHANGED <<config, main, proxies, max_workers, file_lock, log, log_faults,
                   yielded, pbar, successful_proxies, ranking, exit_code>>

CurlReturn(i) == Curl(i, ProbeReplies)

\* variant: the append without the lock
LockFree_NoLock(i) == TRUE

\* "with file_lock" can be entered
LockFree(i) == file_lock = 0

\* variant: the lock is kept
Release_Kept(i) == i

\* the "with file_lock" block of lines 370 and 409 is left, by its end or by
\* an exception
Release(i) == 0

\* lines 371-374 and 409-412: the lock is taken, the log opened and the
\* header line written
AppendHeader(i) ==
    /\ fut[i].pc = "wait"
    /\ LockFree(i)
    /\ file_lock' = i
    /\ log' = Append(log, HeaderLine(fut[i].loc))
    /\ fut' = [fut EXCEPT ![i].pc = "write"]
    /\ UNCHANGED <<config, main, proxies, max_workers, log_faults, yielded, pbar,
                   successful_proxies, ranking, exit_code>>

\* lines 371-377 and 409-418 when open() raises and nothing is written: the
\* handler prints and the lock is released
AppendFails(i) ==
    /\ fut[i].pc = "wait"
    /\ LockFree(i)
    /\ log_faults < MaxLogFaults
    /\ log_faults' = log_faults + 1
    /\ file_lock' = Release(i)
    /\ fut' = [fut EXCEPT ![i].pc = "return"]
    /\ UNCHANGED <<config, main, proxies, max_workers, log, yielded, pbar,
                   successful_proxies, ranking, exit_code>>

\* lines 375 and 413-416: the rest of the block; the file is closed and the
\* lock released
AppendResult(i) ==
    /\ fut[i].pc = "write"
    /\ log' = Append(log, ResultLines(fut[i].loc))
    /\ file_lock' = Release(i)
    /\ fut' = [fut EXCEPT ![i].pc = "return"]
    /\ UNCHANGED <<config, main, proxies, max_workers, log_faults, yielded, pbar,
                   successful_proxies, ranking, exit_code>>

\* variant: only a success ends the work item
AfterReturn_Hangs(res) == IF res = None THEN "return" ELSE "done"

\* lines 378, 433 and 435: check_proxy returns and the work item is over
AfterReturn(res) == "done"

\* lines 378 and 420-435: the future gets its result or its exception
Return(i) ==
    /\ fut[i].pc = "return"
    /\ fut' = [fut EXCEPT ![i].pc = AfterReturn(Classify(fut[i].loc)),
                          ![i].res = Classify(fut[i].loc)]
    /\ UNCHANGED <<config, main, proxies, max_workers, file_lock, log, log_faults,
                   yielded, pbar, successful_proxies, ranking, exit_code>>

(***************************************************************************)
(* Main thread: fan-in.                                                    *)
(***************************************************************************)
\* as_completed may hand out future i
Completed(i) == fut[i].pc = "done"

\* variant: the result is never appended
Collected_Nothing(s, res) == s

\* lines 446-450: future.result() is appended when it is a tuple; None is
\* dropped and an exception printed
Collected(s, res) == IF res.t = "tuple" THEN Append(s, res) ELSE s

\* variant: the exception of a probe leaves the loop, into the handler of
\* line 452
AfterFuture_Propagates(res) == IF res = Raised THEN "exit" ELSE "collect"

\* lines 445-451: the loop goes on after every future, the exception of
\* future.result() being caught at line 449
AfterFuture(res) == "collect"

\* lines 444-451, one iteration of the loop
Collect(i) ==
    /\ main = "collect"
    /\ i \notin yielded
    /\ Completed(i)
    /\ yielded' = yielded \cup {i}
    /\ successful_proxies' = Collected(successful_proxies, fut[i].res)
    /\ pbar' = pbar + 1
    /\ main' = AfterFuture(fut[i].res)
    /\ exit_code' = IF main' = "exit" THEN 1 ELSE exit_code
    /\ UNCHANGED <<config, proxies, max_workers, fut, file_lock, log, log_faults,
                   ranking>>

\* variant: the loop ends at the first future
Barrier_First == yielded # {}

\* the loop has handed out every future
Barrier == yielded = 1..Len(proxies)

\* lines 441-457: the executor is left and the results sorted by response time
SortResults ==
    /\ main = "collect"
    /\ Barrier
    /\ IF SortRaises(successful_proxies)
       THEN \* the TypeError is caught nowhere
            main' = "crash" /\ exit_code' = 1 /\ UNCHANGED successful_proxies
       ELSE /\ main' = "step6"
            /\ successful_proxies' = SortByResponseTime(successful_proxies)
            /\ UNCHANGED exit_code
    /\ UNCHANGED <<config, proxies, pool, log, ranking>>

(***************************************************************************)
(* Main thread: the result files.                                          *)
(***************************************************************************)
\* lines 460-479
Step6 ==
    /\ main = "step6"
    /\ success_file' = File(SuccessLines(successful_proxies_sorted(successful_proxies)))
    /\ main' = "step7"
    /\ UNCHANGED <<config, proxies, pool, log, successful_proxies, preferred_file,
                   preferred_proxies, preferred_port_proxies, reported, exit_code>>

\* lines 476 and 480-482: open() raises
Step6Fails ==
    /\ main = "step6"
    /\ main' = "exit"
    /\ exit_code' = 1
    /\ UNCHANGED <<config, proxies, pool, log, successful_proxies, ranking>>

\* lines 490-540: the two lists and the lines to write, from the success file
Step7Lists(file, ports, threshold) ==
    LET read == IF file.exists THEN ReadPreferred(file.lines, threshold) ELSE <<>>
    IN IF PreferredSortRaises(read)
       THEN \* line 513 raises into the handler of line 545
            [preferred_proxies |-> read, preferred_port_proxies |-> <<>>,
             lines |-> <<>>]
       ELSE LET sorted == SortPreferred(read)
                by_port == FilterPorts(sorted, ports)
            IN IF ports # <<>>
               THEN [preferred_proxies |-> sorted, preferred_port_proxies |-> by_port,
                     lines |-> PreferredLines(preferred_port_proxies_sorted(by_port))]
               ELSE [preferred_proxies |-> sorted, preferred_port_proxies |-> <<>>,
                     lines |-> PreferredLines(sorted)]

\* lines 485-546
Step7 ==
    /\ main = "step7"
    /\ LET r == Step7Lists(success_file, PREFERRED_PROXY_PORT,
                           PREFERRED_MAX_RESPONSE_TIME)
       IN /\ preferred_proxies' = r.preferred_proxies
          /\ preferred_port_proxies' = r.preferred_port_proxies
          /\ preferred_file' = File(r.lines)
    /\ main' = "summary"
    /\ UNCHANGED <<config, proxies, pool, log, successful_proxies, success_file,
                   reported, exit_code>>

\* line 487: open() raises into the handler of line 545 before the two lists
\* are bound, and line 554 then reads an unbound name: the NameError is
\* caught nowhere
Step7OpenFails ==
    /\ main = "step7"
    /\ main' = "crash"
    /\ exit_code' = 1
    /\ UNCHANGED <<config, proxies, pool, log, successful_proxies, ranking>>

\* lines 529 and 538: the second open() raises into the handler of line 545,
\* which prints; the file stays as line 487 left it
Step7WriteFails ==
    /\ main = "step7"
    /\ LET r == Step7Lists(success_file, PREFERRED_PROXY_PORT,
                           PREFERRED_MAX_RESPONSE_TIME)
       IN /\ r.lines # <<>>
          /\ preferred_proxies' = r.preferred_proxies
          /\ preferred_port_proxies' = r.preferred_port_proxies
          /\ preferred_file' = File(<<>>)
    /\ main' = "summary"
    /\ UNCHANGED <<config, proxies, pool, log, successful_proxies, success_file,
                   reported, exit_code>>

\* lines 549-598: the lists are printed, then the two counts
Summary ==
    /\ main = "summary"
    /\ reported' = [successful |-> Len(successful_proxies),
                    preferred |-> IF PREFERRED_PROXY_PORT # <<>>
                                  THEN Len(preferred_port_proxies)
                                  ELSE Len(preferred_proxies)]
    /\ main' = "done"
    /\ exit_code' = 0
    /\ UNCHANGED <<config, proxies, pool, log, successful_proxies, success_file,
                   preferred_file, preferred_proxies, preferred_port_proxies>>

(***************************************************************************)
(* The run, with the probes interleaved at the lock and the log.           *)
(***************************************************************************)
Next ==
    \/ LoadProxies
    \/ ClearLog
    \/ ClearLogFails
    \/ StartPool
    \/ Submit
    \/ \E i \in 1..Len(fut) : WorkerStart(i)
    \/ \E i \in 1..Len(fut) : CurlReturn(i)
    \/ \E i \in 1..Len(fut) : AppendHeader(i)
    \/ \E i \in 1..Len(fut) : AppendFails(i)
    \/ \E i \in 1..Len(fut) : AppendResult(i)
    \/ \E i \in 1..Len(fut) : Return(i)
    \/ \E i \in 1..Len(fut) : Collect(i)
    \/ SortResults
    \/ Step6
    \/ Step6Fails
    \/ Step7
    \/ Step7OpenFails
    \/ Step7WriteFails
    \/ Summary

Spec == Init /\ [][Next]_vars

(***************************************************************************)
(* The ranking, from every state in which the loop of line 444 can end.    *)
(***************************************************************************)
Perms(n) == {f \in [1..n -> 1..n] : \A a, b \in 1..n : a # b => f[a] # f[b]}

RECURSIVE Blocks(_, _)
Blocks(locs, order) ==
    IF order = <<>> THEN <<>>
    ELSE <<HeaderLine(locs[Head(order)]), ResultLines(locs[Head(order)])>>
         \o Blocks(locs, Tail(order))

RECURSIVE Tuples(_, _)
Tuples(res, order) ==
    IF order = <<>> THEN <<>>
    ELSE (IF res[Head(order)].t = "tuple" THEN <<res[Head(order)]>> ELSE <<>>)
         \o Tuples(res, Tail(order))

\* the state at the end of the loop when the probes got `replies` and
\* completed and were handed out in `order`
AtBarrier(src, replies, order) ==
    LET n == Len(src)
        locs == [i \in 1..n |-> Request(src[i], replies[i])]
        res == [i \in 1..n |-> Classify(locs[i])]
    IN /\ source = src
       /\ Ingested(src)
       /\ proxies = src
       /\ main = "collect"
       /\ max_workers = Min(fixedMaxWorkers, n)
       /\ fut = [i \in 1..n |-> [pc |-> "done", arg |-> src[i], curls |-> 1,
                                  loc |-> locs[i], res |-> res[i]]]
       /\ file_lock = 0
       /\ log = Blocks(locs, order)
       /\ log_faults = 0
       /\ yielded = 1..n
       /\ pbar = n
       /\ successful_proxies = Tuples(res, order)
       /\ success_file = NoFile
       /\ preferred_file = NoFile
       /\ preferred_proxies = <<>>
       /\ preferred_port_proxies = <<>>
       /\ reported = NoReport
    /\ exit_code = 0 - 1

InitRank ==
    /\ PREFERRED_PROXY_PORT \in PortInputs
    /\ PREFERRED_MAX_RESPONSE_TIME = 350
    /\ \E src \in SeqsUpTo(Candidates, MaxProxies) \ {<<>>} :
       \E replies \in [1..Len(src) -> RankReplies] :
       \E order \in Perms(Len(src)) :
          AtBarrier(src, replies, order)

NextRank ==
    \/ SortResults
    \/ Step6
    \/ Step7
    \/ Summary

SpecRank == InitRank /\ [][NextRank]_vars

(***************************************************************************)
(* The pool at its ceiling: one candidate more than the pool has threads,  *)
(* every request timing out, and each check_proxy call run as one step     *)
(* from the return of the request to its own return.                       *)
(***************************************************************************)
\* lines 368-435 after the request was started
RunProbe(i) ==
    /\ fut[i].pc = "curl"
    /\ LockFree(i)
    /\ LET loc == Request(fut[i].arg, TimedOut)
       IN /\ log' = log \o <<HeaderLine(loc), ResultLines(loc)>>
          /\ fut' = [fut EXCEPT ![i].pc = "done", ![i].curls = @ + 1, ![i].loc = loc,
                                ![i].res = Classify(loc)]
    /\ UNCHANGED <<config, main, proxies, max_workers, file_lock, log_faults, yielded,
                   pbar, successful_proxies, ranking, exit_code>>

InitPool ==
    /\ source = [i \in 1..(fixedMaxWorkers + 1) |-> CandA]
    /\ Ingested(source)
    /\ PREFERRED_PROXY_PORT = <<>>
    /\ PREFERRED_MAX_RESPONSE_TIME = 350
    /\ main = "load"
    /\ Start

NextPool ==
    \/ LoadProxies
    \/ ClearLog
    \/ StartPool
    \/ Submit
    \/ \E i \in 1..Len(fut) : WorkerStart(i)
    \/ \E i \in 1..Len(fut) : RunProbe(i)
    \/ \E i \in 1..Len(fut) : Collect(i)
    \/ SortResults
    \/ Step6
    \/ Step7
    \/ Summary

SpecPool == InitPool /\ [][NextPool]_vars

(***************************************************************************)
(* check_proxy called on any line, the lines the comprehension of line 343 *)
(* keeps from the pool included, with every reply.                         *)
(***************************************************************************)
CurlAny(i) == Curl(i, CheckReplies)

\* the state at line 438 with the lines of args as the list
InitProbe ==
    /\ \E args \in SeqsUpTo(Candidates \cup {BadLine}, MaxCalls) \ {<<>>} :
          /\ source = args
          /\ Ingested(args)
          /\ proxies = args
    /\ PREFERRED_PROXY_PORT = <<>>
    /\ PREFERRED_MAX_RESPONSE_TIME = 350
    /\ main = "pool"
    /\ max_workers = 0
    /\ fut = <<>>
    /\ file_lock = 0
    /\ log = <<>>
    /\ log_faults = 0
    /\ yielded = {}
    /\ pbar = 0
    /\ successful_proxies = <<>>
    /\ success_file = NoFile
    /\ preferred_file = NoFile
    /\ preferred_proxies = <<>>
    /\ preferred_port_proxies = <<>>
    /\ reported = NoReport
    /\ exit_code = 0 - 1

NextProbe ==
    \/ StartPool
    \/ Submit
    \/ \E i \in 1..Len(fut) : WorkerStart(i)
    \/ \E i \in 1..Len(fut) : SplitFails(i)
    \/ \E i \in 1..Len(fut) : CurlAny(i)
    \/ \E i \in 1..Len(fut) : AppendHeader(i)
    \/ \E i \in 1..Len(fut) : AppendFails(i)
    \/ \E i \in 1..Len(fut) : AppendResult(i)
    \/ \E i \in 1..Len(fut) : Return(i)
    \/ \E i \in 1..Len(fut) : Collect(i)
    \/ SortResults
    \/ Step6
    \/ Step7
    \/ Summary

SpecProbe == InitProbe /\ [][NextProbe]_vars

(***************************************************************************)
(* The run under fair scheduling: the main thread goes on when it can,     *)
(* every pool thread goes on when it can, and subprocess.run returns or     *)
(* raises TimeoutExpired within its timeout of 10 s (line 388).  Whether a *)
(* write fails is not a matter of scheduling: a thread that can take a     *)
(* step takes it, with either outcome.                                     *)
(***************************************************************************)
InitFair ==
    /\ Init
    /\ \A k \in 1..Len(source) : source[k] = CandA

\* the steps of the main thread
MainStep ==
    \/ LoadProxies
    \/ ClearLog
    \/ ClearLogFails
    \/ StartPool
    \/ Submit
    \/ \E i \in 1..Len(fut) : Collect(i)
    \/ SortResults
    \/ Step6Fails
    \/ Step6
    \/ Step7OpenFails
    \/ Step7WriteFails
    \/ Step7
    \/ Summary

\* the steps of the pool thread that runs work item i
ProbeStep(i) ==
    /\ i \in 1..Len(fut)
    /\ \/ WorkerStart(i)
       \/ CurlReturn(i)
       \/ AppendHeader(i)
       \/ AppendFails(i)
       \/ AppendResult(i)
       \/ Return(i)

SpecFair ==
    /\ InitFair
    /\ [][Next]_vars
    /\ WF_vars(MainStep)
    /\ \A i \in 1..MaxProxies : WF_vars(ProbeStep(i))

(***************************************************************************)
(* The whole script, started in a folder that holds the six files of an    *)
(* earlier run on the candidate b:80.                                      *)
(***************************************************************************)
\* what the earlier run got for b:80
OldLoc == Request(CandB, Exited(0, Json(Succeeded(JInt(300)))))

OldLine == Classify(OldLoc).entry

OldLog == <<HeaderLine(OldLoc), ResultLines(OldLoc)>>

\* the state at line 143, the input file holding the line "a 443"
InitFresh ==
    /\ PREFERRED_COUNTRY \in {"", "US"}
    /\ input_file = TxtInput(<<(<<TokA, P443>>)>>)
    /\ proxy_file = File(<<CandB>>)
    /\ iptest_csv_file = Csv(TRUE, <<[ip |-> CandB[1], port |-> CandB[2], country |-> "JP"]>>)
    /\ iptest_txt_file = File(<<CandB>>)
    /\ source = <<>>
    /\ PREFERRED_PROXY_PORT = <<>>
    /\ PREFERRED_MAX_RESPONSE_TIME = 350
    /\ main = "cleanup"
    /\ proxies = <<>>
    /\ max_workers = 0
    /\ fut = <<>>
    /\ file_lock = 0
    /\ log = OldLog
    /\ log_faults = 0
    /\ yielded = {}
    /\ pbar = 0
    /\ successful_proxies = <<>>
    /\ success_file = File(<<OldLine>>)
    /\ preferred_file = File(<<OldLine>>)
    /\ preferred_proxies = <<>>
    /\ preferred_port_proxies = <<>>
    /\ reported = NoReport
    /\ exit_code = 0 - 1

NextFresh ==
    \/ Cleanup
    \/ Step1
    \/ Step2
    \/ SelectSource
    \/ Next

SpecFresh == InitFresh /\ [][NextFresh]_vars

(***************************************************************************)
(* Steps 1 to 3: from the input file to the candidate list.                *)
(***************************************************************************)
InputFiles ==
    {NoInput}
    \cup {CsvInput(cols, rows) : cols \in BOOLEAN, rows \in SeqsUpTo(CsvRows, MaxProxies)}
    \cup {TxtInput(lines) : lines \in SeqsUpTo(TxtLines, MaxProxies)}

\* the state at line 146, cleanup_old_files having removed every old file
InitIngest ==
    /\ PREFERRED_COUNTRY \in {"", "US"}
    /\ input_file \in InputFiles
    /\ proxy_file = NoFile
    /\ iptest_csv_file = NoCsv
    /\ iptest_txt_file = NoFile
    /\ source = <<>>
    /\ PREFERRED_PROXY_PORT = <<>>
    /\ PREFERRED_MAX_RESPONSE_TIME = 350
    /\ main = "step1"
    /\ Start

NextIngest ==
    \/ Step1
    \/ Step2
    \/ SelectSource
    \/ LoadProxies

SpecIngest == InitIngest /\ [][NextIngest]_vars

(***************************************************************************)
(* Properties.                                                             *)
(***************************************************************************)
AfterBarrier == main \in {"step6", "step7", "summary", "done"}

Succeededs == {i \in 1..Len(fut) : fut[i].res.t = "tuple"}

AllProbesDone == Len(fut) = Len(proxies) /\ \A i \in 1..Len(fut) : fut[i].pc = "done"

\* the response time a line of a result file shows, in halves
LineRt(line) ==
    LET t == line.rt
        n == Len(t)
    IN IF PyInt(t).ok THEN [ok |-> TRUE, h |-> 2 * PyInt(t).v]
       ELSE IF n >= 3 /\ t[n - 1] = "." /\ t[n] \in {"0", "5"}
               /\ AllDigits(SubSeq(t, 1, n - 2))
            THEN [ok |-> TRUE,
                  h |-> 2 * DigitsVal(SubSeq(t, 1, n - 2)) + (IF t[n] = "5" THEN 1 ELSE 0)]
            ELSE [ok |-> FALSE]

\* the numeric port a line shows
LinePort(line) == PyInt(line.port)

\* lines a and b, in this order, follow (port ascending, response time ascending)
InOrder(a, b) ==
    \/ LinePort(a).v < LinePort(b).v
    \/ LinePort(a).v = LinePort(b).v /\ LineRt(a).h <= LineRt(b).h

Range(s) == {s[k] : k \in 1..Len(s)}

\* C1 as stated: the loop of line 444 hands on N outcomes, one for each
\* submitted candidate, failed probes included.
C1_OneOutcomePerCandidate ==
    AfterBarrier => Len(successful_proxies) = Len(proxies)

\* C1 as amended: when the loop has ended it has handled exactly N completed
\* futures, one for each submitted candidate, and has handed on exactly the
\* outcomes of the probes that returned a success tuple.
C1_OneCompletionPerCandidate ==
    AfterBarrier =>
        /\ pbar = Len(proxies)
        /\ yielded = 1..Len(proxies)
        /\ Len(fut) = Len(proxies)
        /\ Len(successful_proxies) = Cardinality(Succeededs)
        /\ \A i \in Succeededs : fut[i].res \in Range(successful_proxies)

C1_Witness ==
    /\ AfterBarrier
    /\ Len(proxies) >= 2
    /\ successful_proxies # <<>>
    /\ \E i \in 1..Len(fut) : fut[i].res \in {None, Raised}

\* C2: at any time at most min(10, N) probes have started and not finished.
C2_BoundedConcurrency ==
    Cardinality(Active) <= Min(10, Len(proxies))

C2_Witness ==
    /\ Cardinality(Active) = 10
    /\ Len(fut) = Len(proxies)
    /\ \E i \in 1..Len(fut) : fut[i].pc = "queued"

\* C3: a step that writes the success file or the preferred file is a step of
\* the main thread taken when all N submitted probes have completed.
C3_FilesAfterBarrier ==
    [][(success_file' # success_file \/ preferred_file' # preferred_file)
         => AllProbesDone /\ Active = {} /\ main \in {"step6", "step7"}]_vars

C3_Witness ==
    /\ success_file.exists
    /\ preferred_file.exists
    /\ Len(proxies) >= 2
    /\ success_file.lines # <<>>
    /\ \E i \in 1..Len(fut) : fut[i].res # None /\ fut[i].res.t # "tuple"

\* C4: in the written success file, any two lines at positions i < j that
\* show a numeric port and a numeric response time have port(i) < port(j), or
\* port(i) = port(j) and responseTime(i) <= responseTime(j).
C4_SuccessFileSorted ==
    success_file.exists =>
        \A i, j \in 1..Len(success_file.lines) :
            LET a == success_file.lines[i]
                b == success_file.lines[j]
            IN (i < j /\ LinePort(a).ok /\ LinePort(b).ok /\ LineRt(a).ok /\ LineRt(b).ok)
               => InOrder(a, b)

\* the port order moved a later and slower success in front of an earlier one
C4_Witness ==
    /\ success_file.exists
    /\ Len(success_file.lines) >= 2
    /\ Len(successful_proxies) >= 2
    /\ success_file.lines[1] = successful_proxies[2].entry
    /\ LinePort(success_file.lines[1]).ok
    /\ LinePort(success_file.lines[2]).ok
    /\ LinePort(success_file.lines[1]).v < LinePort(success_file.lines[2]).v
    /\ LineRt(success_file.lines[1]).ok
    /\ LineRt(success_file.lines[2]).ok
    /\ LineRt(success_file.lines[1]).h > LineRt(success_file.lines[2]).h

\* the line's port is one of the configured ports
PortAllowed(line) == \E k \in 1..Len(PREFERRED_PROXY_PORT) : PREFERRED_PROXY_PORT[k] = line.port

\* C5: every line of the preferred file is a line of the success file and
\* shows a response time below the threshold; when a port list is configured
\* the line's port is in it.
C5_PreferredWithinSuccess ==
    preferred_file.exists =>
        \A line \in Range(preferred_file.lines) :
            /\ success_file.exists
            /\ line \in Range(success_file.lines)
            /\ LineRt(line).ok
            /\ LineRt(line).h < 2 * PREFERRED_MAX_RESPONSE_TIME
            /\ PREFERRED_PROXY_PORT # <<>> => PortAllowed(line)

\* a success is preferred while the filters dropped another one
C5_Witness ==
    /\ preferred_file.exists
    /\ preferred_file.lines # <<>>
    /\ PREFERRED_PROXY_PORT = <<P443>>
    /\ \E line \in Range(success_file.lines) :
          LineRt(line).ok /\ line \notin Range(preferred_file.lines)

\* C6 as stated: once step 7 has run, every line of the success file whose
\* response time is below the threshold (and whose port is in the port list,
\* when one is configured) is a line of the preferred file.
C6_PreferredIsTheFilter ==
    main \in {"summary", "done"} =>
        \A line \in Range(success_file.lines) :
            ( /\ LineRt(line).ok
              /\ LineRt(line).h < 2 * PREFERRED_MAX_RESPONSE_TIME
              /\ PREFERRED_PROXY_PORT # <<>> => PortAllowed(line) )
            => line \in Range(preferred_file.lines)

\* C7: the lines of the preferred file are in (numeric port ascending,
\* response time ascending) order, with and without a port list.
C7_PreferredFileSorted ==
    preferred_file.exists =>
        \A i, j \in 1..Len(preferred_file.lines) :
            LET a == preferred_file.lines[i]
                b == preferred_file.lines[j]
            IN i < j =>
                /\ LinePort(a).ok /\ LinePort(b).ok
                /\ LineRt(a).ok /\ LineRt(b).ok
                /\ InOrder(a, b)

\* two preferred lines of which the slower one has the lower port
C7_Witness ==
    /\ preferred_file.exists
    /\ Len(preferred_file.lines) >= 2
    /\ LinePort(preferred_file.lines[1]).v < LinePort(preferred_file.lines[2]).v
    /\ LineRt(preferred_file.lines[1]).h > LineRt(preferred_file.lines[2]).h

Writers == {i \in 1..Len(fut) : fut[i].pc = "write"}

\* the block that starts at line k of the log is complete and is one
\* probe's block, or it is the block the holder of the lock is writing
BlockWhole(k) ==
    \/ /\ k < Len(log)
       /\ log[k + 1].kind = "result"
       /\ \E i \in 1..Len(fut) :
             /\ fut[i].pc \in {"return", "done"}
             /\ HeaderLine(fut[i].loc) = log[k]
             /\ ResultLines(fut[i].loc) = log[k + 1]
    \/ /\ k = Len(log)
       /\ \E i \in Writers : file_lock = i /\ HeaderLine(fut[i].loc) = log[k]

\* C8: at most one probe is inside a log append at any time, it holds the
\* lock, and every block of the log is one probe's header line directly
\* followed by that probe's result lines.
C8_LogBlocksWhole ==
    /\ Cardinality(Writers) <= 1
    /\ \A i \in Writers : file_lock = i
    /\ \A k \in 1..Len(log) :
          /\ log[k].kind = "header" => BlockWhole(k)
          /\ log[k].kind = "result" => k > 1 /\ log[k - 1].kind = "header"

\* a probe is inside its block while another, with a different block, waits
C8_Witness ==
    \E i, j \in 1..Len(fut) :
        /\ fut[i].pc = "write"
        /\ fut[j].pc = "wait"
        /\ HeaderLine(fut[j].loc) # HeaderLine(fut[i].loc)

Returned == {i \in 1..Len(fut) : fut[i].pc = "done"}

LogBlocks == Cardinality({k \in 1..Len(log) : log[k].kind = "result"})

\* C9 as stated: a probe that has returned has appended its block, so the
\* log holds a block for every returned probe, and N blocks after the run.
C9_BlockBeforeReturn ==
    /\ LogBlocks >= Cardinality(Returned)
    /\ main = "done" => LogBlocks = Len(proxies)

\* C10 as stated: no check_proxy call ends with an exception.
C10_ProbeNeverRaises ==
    \A i \in 1..Len(fut) : fut[i].res # Raised


Faulted == {i \in 1..Len(fut) : fut[i].res = Raised}

\* C11: a probe that raises aborts nothing: the main thread leaves the loop
\* of line 444 only when every probe has returned and every future was
\* handed out, every success handed out so far is in successful_proxies,
\* and the probe that raised has added nothing to it.
C11_FaultContained ==
    Faulted # {} =>
        /\ main \notin {"submit", "collect"} =>
              AllProbesDone /\ yielded = 1..Len(proxies)
        /\ Len(successful_proxies) = Cardinality(Succeededs \cap yielded)
        /\ \A j \in Succeededs \cap yielded : fut[j].res \in Range(successful_proxies)
        /\ Raised \notin Range(successful_proxies)

\* a finished run in which one probe raised and another one's success was
\* collected after it
C11_Witness ==
    /\ main = "done"
    /\ exit_code = 0
    /\ Len(fut) = 2
    /\ fut[1].res = Raised
    /\ fut[2].res.t = "tuple"
    /\ success_file.lines = <<fut[2].res.entry>>


\* C12 as stated: with a non-empty candidate list and every file written
\* without failure, no reply ends the run early, and the finished run has
\* produced the success file and the preferred file.
C12_NoReplyAborts ==
    proxies # <<>> =>
        /\ main \notin {"exit", "crash"}
        /\ main = "done" => success_file.exists /\ preferred_file.exists

\* C13 as stated: after a failed append to the diagnostic log the run does
\* not reach its summary and does not end with status 0.
C13_WriteFailureAborts ==
    log_faults > 0 => main \notin {"summary", "done"} /\ exit_code # 0


\* the successes of the run in which the futures are handed out in the
\* order of their submission
InSubmissionOrder ==
    Tuples([i \in 1..Len(fut) |-> fut[i].res], [i \in 1..Len(fut) |-> i])

\* the success file steps 5 and 6 write for the collected successes s
SuccessFileFor(s) == SuccessLines(successful_proxies_sorted(SortByResponseTime(s)))

\* the preferred file step 7 writes for the collected successes s
PreferredFileFor(s) ==
    Step7Lists(File(SuccessFileFor(s)), PREFERRED_PROXY_PORT,
               PREFERRED_MAX_RESPONSE_TIME).lines

\* C14 as stated: whatever the order in which the probes complete, the two
\* files are, line for line, the files of the run in which the same
\* candidates with the same replies complete in submission order.
C14_FilesIndependentOfOrder ==
    /\ success_file.exists => success_file.lines = SuccessFileFor(InSubmissionOrder)
    /\ main \in {"summary", "done"} =>
          preferred_file.lines = PreferredFileFor(InSubmissionOrder)

Count(x, s) == Cardinality({k \in 1..Len(s) : s[k] = x})

SameLines(a, b) ==
    /\ Len(a) = Len(b)
    /\ \A x \in Range(a) \cup Range(b) : Count(x, a) = Count(x, b)

\* C15: whatever the order in which the probes complete, each of the two
\* files holds the same lines the same number of times as the file of the
\* run in which the same candidates with the same replies complete in
\* submission order, and the run ends before step 6 in the one exactly when
\* it does in the other.
C15_LinesIndependentOfOrder ==
    /\ main # "collect" => ((main = "crash") <=> SortRaises(InSubmissionOrder))
    /\ success_file.exists =>
          SameLines(success_file.lines, SuccessFileFor(InSubmissionOrder))
    /\ main \in {"summary", "done"} =>
          SameLines(preferred_file.lines, PreferredFileFor(InSubmissionOrder))

\* a finished run whose two successes were handed out against the order of
\* their submission and stand in both files
C15_Witness ==
    /\ main = "done"
    /\ Len(successful_proxies) = 2
    /\ Len(preferred_file.lines) = 2
    /\ success_file.lines # SuccessFileFor(InSubmissionOrder)
    /\ preferred_file.lines # PreferredFileFor(InSubmissionOrder)

\* C16 as stated: no two lines of the success file show the same host and
\* the same port.
C16_NoDuplicateEndpoint ==
    success_file.exists =>
        \A i, j \in 1..Len(success_file.lines) :
            i < j => ~ ( /\ success_file.lines[i].ip = success_file.lines[j].ip
                         /\ success_file.lines[i].port = success_file.lines[j].port )

\* C17 as stated: no line of the success file shows a response time below 0.
C17_ResponseTimeNotNegative ==
    success_file.exists =>
        \A line \in Range(success_file.lines) : LineRt(line).ok => LineRt(line).h >= 0


\* C18 as stated: the candidate list handed to the executor holds no
\* candidate twice, whichever file line 338 selected.
C18_NoDuplicateCandidate ==
    main = "clear" =>
        \A i, j \in 1..Len(proxies) : i < j => proxies[i] # proxies[j]


\* C19: when step 3 reads no candidate, the run exits with status 1 at once:
\* no pool is created, no future submitted, no probe started and the log is
\* not touched.
C19_EmptyListExits ==
    (main \notin {"step1", "step2", "select", "load"} /\ proxies = <<>>) =>
        /\ main = "exit"
        /\ exit_code = 1
        /\ max_workers = 0
        /\ fut = <<>>
        /\ log = <<>>

\* the run has exited on a source file that holds lines, none of them a
\* candidate
C19_Witness ==
    /\ main = "exit"
    /\ exit_code = 1
    /\ source # <<>>
    /\ proxies = <<>>
    /\ fut = <<>>

TimedOutProbes ==
    {i \in 1..Len(fut) : /\ fut[i].pc \in {"return", "done"}
                         /\ fut[i].loc.k = "probed"
                         /\ fut[i].loc.stderr = "request timed out"}

TimedOutBlocks ==
    {k \in 1..Len(log) : /\ log[k].kind = "result"
                         /\ log[k].k = "probed"
                         /\ log[k].stderr = "request timed out"}

\* C20 as stated: a probe that timed out returns no success, so the success
\* file holds the lines of the other probes' successes only, and the log
\* holds one timed-out block for each probe that timed out and is past its
\* append.
C20_TimeoutLoggedOnce ==
    /\ \A i \in TimedOutProbes : fut[i].pc = "done" => fut[i].res = None
    /\ success_file.exists => Len(success_file.lines) = Cardinality(Succeededs)
    /\ Cardinality(TimedOutBlocks) = Cardinality(TimedOutProbes)


Malformed == {i \in 1..Len(fut) : Len(fut[i].arg) # 2}

MalformedBlocks ==
    {k \in 1..Len(log) : log[k].kind = "result" /\ log[k].k = "malformed"}

NamedBy(arg, stdout) ==
    IF stdout.k = "json" /\ stdout.val.t = "obj"
    THEN [ip |-> IF "proxyIP" \in DOMAIN stdout.val.f
                 THEN PyStr(stdout.val.f["proxyIP"]) ELSE arg[1],
          port |-> IF "portRemote" \in DOMAIN stdout.val.f
                   THEN PyStr(stdout.val.f["portRemote"]) ELSE arg[2]]
    ELSE [ip |-> arg[1], port |-> arg[2]]

Requested == {i \in 1..Len(fut) : fut[i].pc \in {"wait", "write", "return", "done"}}

\* C25 as stated: the header line of every block in the log names the host
\* and port of the line its probe was submitted with.
C25_HeaderNamesCandidate ==
    \A k \in 1..Len(log) :
        log[k].kind = "header" =>
            \E i \in Requested :
                /\ log[k] = HeaderLine(fut[i].loc)
                /\ IF Len(fut[i].arg) = 2
                   THEN log[k].header = [ip |-> fut[i].arg[1], port |-> fut[i].arg[2]]
                   ELSE log[k].ip_port = fut[i].arg

\* C25, amended: the header line of a block names the host and port of the
\* submitted line, except that a host (proxyIP) and a port (portRemote) that
\* the reply body, a JSON object, reports stand in their place; for a line
\* that does not split into two tokens it shows the line.
C25_HeaderNamesReported ==
    /\ \A i \in Requested :
          Len(fut[i].arg) = 2 => fut[i].loc.header = NamedBy(fut[i].arg, fut[i].loc.stdout)
    /\ \A k \in 1..Len(log) :
          log[k].kind = "header" =>
              \E i \in Requested :
                  /\ log[k] = HeaderLine(fut[i].loc)
                  /\ IF Len(fut[i].arg) = 2
                     THEN log[k].header = NamedBy(fut[i].arg, fut[i].loc.stdout)
                     ELSE log[k].ip_port = fut[i].arg

\* the block of a:443 or b:80 is headed c:443, as the reply reports
C25_Witness ==
    /\ Len(log) = 2
    /\ log[1].kind = "header"
    /\ log[1].k = "probed"
    /\ log[1].header = [ip |-> <<"c">>, port |-> P443]
    /\ fut[1].arg \in Candidates
    /\ fut[1].pc = "done"

\* C28: a probe returns a success only when the request ended with return
\* code 0 and a body that is a JSON object whose success is truthy and whose
\* responseTime is not -1; after a timeout, a non-zero return code or an
\* empty body it returns none.
C28_SuccessOnlyFromGoodReply ==
    \A i \in 1..Len(fut) :
        (fut[i].pc = "done" /\ fut[i].res.t = "tuple") =>
            /\ fut[i].loc.k = "probed"
            /\ fut[i].loc.stderr # "request timed out"
            /\ fut[i].loc.returncode = 0
            /\ fut[i].loc.stdout.k = "json"
            /\ fut[i].loc.stdout.val.t = "obj"
            /\ Truthy(Get(fut[i].loc.stdout.val, "success", JBool(FALSE)))
            /\ NotMinusOne(Get(fut[i].loc.stdout.val, "responseTime", JInt(0 - 1)))

\* a request that ended with return code 7 and a body reporting success has
\* given no success
C28_Witness ==
    \E i \in 1..Len(fut) :
        /\ fut[i].pc = "done"
        /\ fut[i].loc.k = "probed"
        /\ fut[i].loc.returncode = 7
        /\ fut[i].loc.stdout.k = "json"
        /\ fut[i].res = None
        /\ main = "done"
        /\ success_file.lines = <<>>


BadPortsLast(lines) ==
    \A a, b \in 1..Len(lines) :
        (a < b /\ ~LinePort(lines[a]).ok) => ~LinePort(lines[b]).ok

\* C22 as stated: once step 7 is over, neither sort has raised on a port
\* that is no number, and in both files every line with such a port comes
\* after every line whose port is a number.
C22_BadPortSortsLast ==
    main \in {"summary", "done"} =>
        /\ ~PreferredSortRaises(ReadPreferred(success_file.lines,
                                              PREFERRED_MAX_RESPONSE_TIME))
        /\ BadPortsLast(success_file.lines)
        /\ BadPortsLast(preferred_file.lines)


\* each entry of the candidate list is submitted once, and the probe of an
\* entry makes at most one request, exactly one once it is past the request
OneRequestPerEntry ==
    /\ Len(fut) <= Len(proxies)
    /\ \A i \in 1..Len(fut) :
          /\ fut[i].arg = proxies[i]
          /\ fut[i].curls <= 1
          /\ fut[i].pc \in {"wait", "write", "return", "done"} => fut[i].curls = 1

\* C23 as stated: a candidate (host and port) is the argument of at most one
\* probe of the run, and that probe makes at most one request; a probe that
\* failed is not run again.
C23_ProbedOnce ==
    /\ OneRequestPerEntry
    /\ \A i, j \in 1..Len(fut) : i < j => fut[i].arg # fut[j].arg


\* C29 as stated: when the summary is printed, the count of preferred
\* proxies it reports is the number of lines of the preferred file and the
\* count of successful proxies is the number of lines of the success file.
C29_ReportedCountsMatchFiles ==
    main = "done" =>
        /\ reported.successful = Len(success_file.lines)
        /\ reported.preferred = Len(preferred_file.lines)


Ended == main \in {"done", "exit", "crash"}

\* C26 as stated: once the pool is created, every probe completes, the
\* barrier is passed and the run reaches its summary.
C26_RunReachesSummary ==
    (main = "submit") ~> (AllProbesDone /\ yielded = 1..Len(proxies) /\ main = "done")

\* C26, amended: once the pool is created, every probe completes, the
\* barrier is passed and the run ends: with its summary, or earlier where a
\* result file cannot be written or the ranking raises.
C26_RunEnds ==
    (main = "submit") ~> (AllProbesDone /\ yielded = 1..Len(proxies) /\ Ended)

\* a run of two candidates whose requests timed out has printed its summary
C26_Witness ==
    /\ main = "done"
    /\ Len(fut) = 2
    /\ AllProbesDone
    /\ \A i \in 1..2 : fut[i].loc.stderr = "request timed out"
    /\ reported = [successful |-> 0, preferred |-> 0]

\* C27: the lock of the log is held only by a probe that is writing its
\* block: not by a probe that has returned or is about to, whether its append
\* succeeded or failed; and a probe that waits for the lock gets past it.
C27_LockReleased ==
    /\ [](\A i \in 1..Len(fut) : file_lock = i => fut[i].pc = "write")
    /\ \A i \in 1..MaxProxies :
          (i <= Len(fut) /\ fut[i].pc = "wait")
              ~> (i <= Len(fut) /\ fut[i].pc \in {"return", "done"})

\* the append of the first probe failed, it has returned, and the second
\* probe holds the lock
C27_Witness ==
    /\ Len(fut) = 2
    /\ log_faults = 1
    /\ Len(log) = 1
    /\ fut[1].pc = "done"
    /\ fut[2].pc = "write"
    /\ file_lock = 2


Old(lines) == \E k \in 1..Len(lines) : lines[k] = OldLine

\* the body of the old block is in the log (this run may write its header
\* again, for b:80, but gets no reply of 300 ms)
OldBlock == \E k \in 1..Len(log) : log[k] = OldLog[2]

Early == main \in {"step1", "step2", "select", "load", "clear"}

\* cleanup leaves an old file as it was or removes it, the log is emptied
\* before the first probe, and after a run that reached its summary every
\* line of the three files is of this run
FreshAfterRun ==
    /\ Early => /\ success_file \in {NoFile, File(<<OldLine>>)}
                /\ preferred_file \in {NoFile, File(<<OldLine>>)}
                /\ log \in {<<>>, OldLog}
    /\ main \in {"pool", "submit", "collect", "step6", "step7", "summary", "done",
                 "crash"} => ~OldBlock
    /\ main = "done" =>
          /\ ~Old(success_file.lines)
          /\ ~Old(preferred_file.lines)
          /\ \A k \in 1..Len(log) :
                \E i \in 1..Len(fut) :
                    log[k] \in {HeaderLine(fut[i].loc), ResultLines(fut[i].loc)}
          /\ \A k \in 1..Len(success_file.lines) :
                \E i \in Succeededs : success_file.lines[k] = fut[i].res.entry
          /\ \A k \in 1..Len(preferred_file.lines) :
                \E i \in Succeededs : preferred_file.lines[k] = fut[i].res.entry

\* C24 as stated: the old success file, preferred file and log are gone when
\* the input is read, the log is empty before the first probe, and after a
\* run that reached its summary every line of the three files is of this run.
C24_OldFilesRemoved ==
    /\ Early => ~success_file.exists /\ ~preferred_file.exists /\ log = <<>>
    /\ FreshAfterRun


\* the candidate is a row of the result of iptest with the country
FromRowOf(p, country) ==
    \E k \in 1..Len(iptest_csv_file.rows) :
        /\ iptest_csv_file.rows[k].country = country
        /\ <<iptest_csv_file.rows[k].ip, iptest_csv_file.rows[k].port>> = p

====
